---- MODULE Spec2Model ----
(***************************************************************************)
(* AuthDevice7702: the SessionDelegate contract (hardware-bound session    *)
(* keys), the DeviceManagerSimple contract (multi-device registry with     *)
(* session lists) and the MockVerifier they are deployed with.             *)
(*                                                                         *)
(* Every external function is one action; a call that reverts leaves the   *)
(* chain state as it was (EVM revert) and is recorded in `last` only.      *)
(* keccak256 is modelled as a collision-free encoding of its preimage, an  *)
(* ECDSA signature by the digest it was made over and the address that     *)
(* ecrecover returns for it.                                               *)
(***************************************************************************)
EXTENDS Integers, Sequences, FiniteSets, TLC

-----------------------------------------------------------------------------
(* Bounds of the exploration *)

\* block.timestamp runs over 0..MaxTime
MaxTime == 1

\* the callers; A is the owner under study, B the interfering owner
Owners == {"A", "B"}

OtherOwner(o) == IF o = "A" THEN "B" ELSE "A"

\* session time-to-live values submitted to startSession / createSession
Ttls == {0, 1}

\* P-256 device public keys (x, y) that a proof's public inputs can carry
DeviceKeys == {<<1, 1>>, <<1, 2>>}

\* device keys each owner's authenticators produce registration proofs for
OwnDeviceKeys(o) == IF o = "A" THEN DeviceKeys ELSE {<<1, 1>>}

\* session public keys (x, y) each owner submits
SessionKeys == {<<1, 0>>, <<2, 0>>}

OwnSessionKeys(o) == IF o = "A" THEN SessionKeys ELSE {<<1, 0>>}

DeviceNames == {"touchid"}

EncryptedKeys == {"blob"}

Payloads == {"tx"}

\* the (proof, publicInputs) pairs submitted for device key k: a well-formed
\* pair, one with an empty proof and one with only two public inputs
ProofPairs(keys) ==
    {[proof |-> <<1>>, inputs |-> <<0, k[1], k[2]>>] : k \in keys}
        \cup {[proof |-> <<>>, inputs |-> <<0, 1, 1>>],
              [proof |-> <<1>>, inputs |-> <<0, 1>>]}

-----------------------------------------------------------------------------
(* Values *)

ZeroAddress == "0x0"

ZeroBytes32 == "0"

\* the address ecrecover yields for a signature that was made over another
\* digest: some address nobody chose
StrayAddress == "0x?"

\* keccak256(abi.encodePacked(pubKeyX, pubKeyY)) as bytes32
DeviceIdOf(x, y) == "dev:" \o ToString(x) \o "," \o ToString(y)

DeviceIds == {DeviceIdOf(k[1], k[2]) : k \in DeviceKeys}

\* the device id that public inputs [1..2] encode; zero when they are missing
InputDeviceId(publicInputs) ==
    IF Len(publicInputs) < 3 THEN ZeroBytes32
    ELSE DeviceIdOf(publicInputs[2], publicInputs[3])

\* address(uint160(uint256(keccak256(abi.encodePacked(uint8(0x04), x, y)))))
getSessionAddress(pubKeyX, pubKeyY) ==
    "k04:" \o ToString(pubKeyX) \o "," \o ToString(pubKeyY)

\* the Ethereum address of the key pair whose public key is (x, y):
\* the low 20 bytes of keccak256(x ++ y), which is what ecrecover returns
\* for a signature made with that key pair's private key
KeyAddress(x, y) == "k:" \o ToString(x) \o "," \o ToString(y)

EmptySession ==
    [owner |-> ZeroAddress, sessionPubKeyX |-> 0, sessionPubKeyY |-> 0,
     expires |-> 0, isActive |-> FALSE, deviceId |-> ZeroBytes32,
     encryptedSessionKey |-> ZeroBytes32]

EmptyDevice ==
    [pubKeyX |-> 0, pubKeyY |-> 0, isRegistered |-> FALSE,
     registeredAt |-> 0, deviceName |-> ""]

\* a receipt: the call and its outcome, the events emitted, the payloads that
\* reached msg.sender, the device or credential id the call referred to, the
\* address recovered from its signature, for a call that did not revert its
\* arguments, and for a startSession that wrote the slot the address of the
\* session key it overwrote
NoCall == [contract |-> "-", op |-> "-", caller |-> "-", err |-> "-",
           events |-> <<>>, dispatched |-> <<>>, device |-> "-", signer |-> "-",
           args |-> <<>>, overwritten |-> "-"]

Call(c, op, caller, err, events, dispatched, device, signer, args) ==
    [contract |-> c, op |-> op, caller |-> caller, err |-> err,
     events |-> events, dispatched |-> dispatched, device |-> device,
     signer |-> signer, args |-> IF err = "ok" THEN args ELSE <<>>,
     overwritten |-> "-"]


-----------------------------------------------------------------------------
VARIABLES
    sessions,       \* SessionDelegate.sessions: owner -> Session
    devices,        \* SessionDelegate.devices: owner -> deviceId -> Device
    ownerDevices,   \* SessionDelegate.ownerDevices: owner -> bytes32[]
    userDevices,    \* DeviceManagerSimple.userDevices: user -> Device[]
    deviceIndex,    \* DeviceManagerSimple.deviceIndex: user -> credentialId -> index
    userSessions,   \* DeviceManagerSimple.userSessions: user -> Session[]
    sessionIndex,   \* DeviceManagerSimple.sessionIndex: user -> sessionKey -> index
    mockResult,     \* MockVerifier.mockResult
    now,            \* block.timestamp
    deployed,       \* the contract this transaction sequence is sent to
    last            \* the receipt of the transaction just mined, NoCall when read

sdVars == <<sessions, devices, ownerDevices>>

dmVars == <<userDevices, deviceIndex, userSessions, sessionIndex>>

vars == <<sessions, devices, ownerDevices, userDevices, deviceIndex, userSessions,
          sessionIndex, mockResult, now, deployed, last>>

-----------------------------------------------------------------------------
(* MockVerifier *)

\* a verifier that accepts every well-formed proof
verifyAcceptsAll(proof, publicInputs) ==
    IF Len(proof) = 0 THEN "Empty proof"
    ELSE IF Len(publicInputs) < 3 THEN "Invalid public inputs length"
    ELSE "true"

\* verify(): the two requires revert with their message, otherwise mockResult
verify(proof, publicInputs) ==
    IF Len(proof) = 0 THEN "Empty proof"
    ELSE IF Len(publicInputs) < 3 THEN "Invalid public inputs length"
    ELSE IF mockResult THEN "true" ELSE "false"

setMockResult(result) ==
    /\ mockResult # result
    /\ mockResult' = result
    /\ last' = NoCall
    /\ UNCHANGED <<sdVars, dmVars, now, deployed>>

-----------------------------------------------------------------------------
(* Signatures *)

\* ecrecover(hash, v, r, s): the signer's address when the signature was made
\* over this hash, an unrelated address otherwise
ecrecover(hash, sig) == IF sig.digest = hash THEN sig.addr ELSE StrayAddress

\* recoverSigner: requires 65 bytes, then ecrecover
recoverSigner(hash, signature) ==
    IF signature.length # 65 THEN "Invalid signature length"
    ELSE ecrecover(hash, signature)

\* an intent digest that leaves the ttl out
sessionHashWithoutTtl(sender, x, y, ttl, deviceId, enc, timestamp) ==
    <<sender, x, y, 0, deviceId, enc, timestamp>>

\* keccak256(abi.encodePacked(msg.sender, sessionPubKeyX, sessionPubKeyY, ttl,
\*                            deviceId, encryptedSessionKey, block.timestamp))
sessionHash(sender, x, y, ttl, deviceId, enc, timestamp) ==
    <<sender, x, y, ttl, deviceId, enc, timestamp>>

\* keccak256("\x19Ethereum Signed Message:\n32" ++ keccak256(data ++ timestamp))
dataHash(data, timestamp) == <<data, timestamp>>

-----------------------------------------------------------------------------
(* SessionDelegate *)

SD == "SessionDelegate"

\* registration checks without the duplicate check
registerDeviceErrNoDuplicateCheck(sender, proof, publicInputs) ==
    LET v == verify(proof, publicInputs) IN
    IF v \notin {"true", "false"} THEN v
    ELSE IF v = "false" THEN "InvalidZKProof"
    ELSE IF Len(publicInputs) < 3 THEN "Invalid public inputs"
    ELSE "ok"

\* registerDevice: the checks in the order of the code; "ok" when none reverts
registerDeviceErr(sender, proof, publicInputs) ==
    LET v == verify(proof, publicInputs) IN
    IF v \notin {"true", "false"} THEN v
    ELSE IF v = "false" THEN "InvalidZKProof"
    ELSE IF Len(publicInputs) < 3 THEN "Invalid public inputs"
    ELSE IF devices[sender][DeviceIdOf(publicInputs[2], publicInputs[3])].isRegistered
         THEN "DeviceAlreadyRegistered"
    ELSE "ok"

registerDevice(sender, proof, publicInputs, deviceName) ==
    LET err == registerDeviceErr(sender, proof, publicInputs) IN
    /\ IF err = "ok"
       THEN LET pubKeyX == publicInputs[2]
                pubKeyY == publicInputs[3]
                deviceId == DeviceIdOf(pubKeyX, pubKeyY)
            IN /\ devices' = [devices EXCEPT ![sender][deviceId] =
                       [pubKeyX |-> pubKeyX, pubKeyY |-> pubKeyY,
                        isRegistered |-> TRUE, registeredAt |-> now,
                        deviceName |-> deviceName]]
               /\ ownerDevices' = [ownerDevices EXCEPT ![sender] = Append(@, deviceId)]
               /\ last' = Call(SD, "registerDevice", sender, "ok",
                               <<"DeviceRegistered">>, <<>>, deviceId, ZeroAddress,
                               <<publicInputs, deviceName>>)
               /\ UNCHANGED sessions
       ELSE /\ last' = Call(SD, "registerDevice", sender, err, <<>>, <<>>,
                            InputDeviceId(publicInputs), ZeroAddress, <<>>)
            /\ UNCHANGED <<sessions, devices, ownerDevices>>
    /\ UNCHANGED <<dmVars, mockResult, now, deployed>>

\* session-start checks that accept a device registered under any owner
startSessionErrAnyOwner(sender, proof, publicInputs, walletSig, x, y, ttl, enc) ==
    LET v == verify(proof, publicInputs) IN
    IF v \notin {"true", "false"} THEN v
    ELSE IF v = "false" THEN "InvalidZKProof"
    ELSE IF Len(publicInputs) < 3 THEN "Invalid public inputs"
    ELSE LET deviceId == DeviceIdOf(publicInputs[2], publicInputs[3])
             signer == recoverSigner(
                 sessionHash(sender, x, y, ttl, deviceId, enc, now), walletSig)
         IN IF \A o \in Owners : ~devices[o][deviceId].isRegistered
            THEN "DeviceNotRegistered"
            ELSE IF signer = "Invalid signature length" THEN signer
            ELSE IF signer # sender THEN "InvalidWalletSignature"
            ELSE "ok"

\* session-start checks without the device registration check
startSessionErrNoDeviceCheck(sender, proof, publicInputs, walletSig, x, y, ttl, enc) ==
    LET v == verify(proof, publicInputs) IN
    IF v \notin {"true", "false"} THEN v
    ELSE IF v = "false" THEN "InvalidZKProof"
    ELSE IF Len(publicInputs) < 3 THEN "Invalid public inputs"
    ELSE LET deviceId == DeviceIdOf(publicInputs[2], publicInputs[3])
             signer == recoverSigner(
                 sessionHash(sender, x, y, ttl, deviceId, enc, now), walletSig)
         IN IF signer = "Invalid signature length" THEN signer
            ELSE IF signer # sender THEN "InvalidWalletSignature"
            ELSE "ok"

\* session-start checks that refuse a zero ttl
startSessionErrRejectsZeroTtl(sender, proof, publicInputs, walletSig, x, y, ttl, enc) ==
    LET v == verify(proof, publicInputs) IN
    IF v \notin {"true", "false"} THEN v
    ELSE IF v = "false" THEN "InvalidZKProof"
    ELSE IF Len(publicInputs) < 3 THEN "Invalid public inputs"
    ELSE LET deviceId == DeviceIdOf(publicInputs[2], publicInputs[3])
             signer == recoverSigner(
                 sessionHash(sender, x, y, ttl, deviceId, enc, now), walletSig)
         IN IF ~devices[sender][deviceId].isRegistered THEN "DeviceNotRegistered"
            ELSE IF signer = "Invalid signature length" THEN signer
            ELSE IF signer # sender THEN "InvalidWalletSignature"
            ELSE IF ttl = 0 THEN "InvalidTtl"
            ELSE "ok"

\* startSession: proof, device registration, wallet signature, in this order
startSessionErr(sender, proof, publicInputs, walletSig, x, y, ttl, enc) ==
    LET v == verify(proof, publicInputs) IN
    IF v \notin {"true", "false"} THEN v
    ELSE IF v = "false" THEN "InvalidZKProof"
    ELSE IF Len(publicInputs) < 3 THEN "Invalid public inputs"
    ELSE LET deviceId == DeviceIdOf(publicInputs[2], publicInputs[3])
             signer == recoverSigner(
                 sessionHash(sender, x, y, ttl, deviceId, enc, now), walletSig)
         IN IF ~devices[sender][deviceId].isRegistered THEN "DeviceNotRegistered"
            ELSE IF signer = "Invalid signature length" THEN signer
            ELSE IF signer # sender THEN "InvalidWalletSignature"
            ELSE "ok"

\* a slot update that writes the new fields over an existing session but keeps
\* the session public key already stored
startSessionSlotKeepsKey(sender, publicInputs, x, y, ttl, enc) ==
    LET old == sessions[sender] IN
    [owner |-> sender,
     sessionPubKeyX |-> IF old.owner = ZeroAddress THEN x ELSE old.sessionPubKeyX,
     sessionPubKeyY |-> IF old.owner = ZeroAddress THEN y ELSE old.sessionPubKeyY,
     expires |-> now + ttl, isActive |-> TRUE,
     deviceId |-> DeviceIdOf(publicInputs[2], publicInputs[3]),
     encryptedSessionKey |-> enc]

\* the Session record startSession writes into the sender's slot
startSessionSlot(sender, publicInputs, x, y, ttl, enc) ==
    [owner |-> sender, sessionPubKeyX |-> x, sessionPubKeyY |-> y,
     expires |-> now + ttl, isActive |-> TRUE,
     deviceId |-> DeviceIdOf(publicInputs[2], publicInputs[3]),
     encryptedSessionKey |-> enc]

\* a session start that writes the slot before the wallet signature is checked
\* and keeps the write when that check fails
startSessionWritesFirst(sender, proof, publicInputs, walletSig, x, y, ttl, enc) ==
    LET err == startSessionErr(sender, proof, publicInputs, walletSig, x, y, ttl, enc)
        deviceId == InputDeviceId(publicInputs)
        signer == recoverSigner(
            sessionHash(sender, x, y, ttl, deviceId, enc, now), walletSig)
    IN
    /\ IF err \in {"ok", "InvalidWalletSignature"}
       THEN /\ sessions' = [sessions EXCEPT ![sender] =
                    startSessionSlot(sender, publicInputs, x, y, ttl, enc)]
            /\ last' = Call(SD, "startSession", sender, err,
                            IF err = "ok" THEN <<"SessionStarted">> ELSE <<>>,
                            <<>>, deviceId, signer, <<publicInputs, x, y, ttl, enc>>)
       ELSE /\ last' = Call(SD, "startSession", sender, err, <<>>, <<>>, deviceId,
                            signer, <<>>)
            /\ UNCHANGED sessions
    /\ UNCHANGED <<devices, ownerDevices, dmVars, mockResult, now, deployed>>

startSession(sender, proof, publicInputs, walletSig, x, y, ttl, enc) ==
    LET err == startSessionErr(sender, proof, publicInputs, walletSig, x, y, ttl, enc)
        deviceId == InputDeviceId(publicInputs)
        signer == recoverSigner(
            sessionHash(sender, x, y, ttl, deviceId, enc, now), walletSig)
    IN
    /\ IF err = "ok"
       THEN /\ sessions' = [sessions EXCEPT ![sender] =
                    startSessionSlot(sender, publicInputs, x, y, ttl, enc)]
            /\ last' = [Call(SD, "startSession", sender, "ok", <<"SessionStarted">>,
                             <<>>, deviceId, signer, <<publicInputs, x, y, ttl, enc>>)
                        EXCEPT !.overwritten =
                            IF sessions[sender].owner = ZeroAddress THEN ZeroAddress
                            ELSE getSessionAddress(sessions[sender].sessionPubKeyX,
                                                   sessions[sender].sessionPubKeyY)]
       ELSE /\ last' = Call(SD, "startSession", sender, err, <<>>, <<>>, deviceId,
                            signer, <<>>)
            /\ UNCHANGED sessions
    /\ UNCHANGED <<devices, ownerDevices, dmVars, mockResult, now, deployed>>

\* a session check that still admits the session at now = expires
sessionCheckInclusive(session) ==
    IF ~session.isActive THEN "SessionNotFound"
    ELSE IF now > session.expires THEN "SessionExpired"
    ELSE "pass"

\* execute, step 1: the session copied from the sender's slot is active and
\* not expired
sessionCheck(session) ==
    IF ~session.isActive THEN "SessionNotFound"
    ELSE IF now >= session.expires THEN "SessionExpired"
    ELSE "pass"

\* execute, step 2: the verifier accepts the hardware touch proof
proofCheck(hardwareProof, hardwarePublicInputs) ==
    LET v == verify(hardwareProof, hardwarePublicInputs) IN
    IF v \notin {"true", "false"} THEN v
    ELSE IF v = "false" THEN "InvalidZKProof"
    ELSE "pass"

\* a device check that accepts a touch from any device
deviceCheckUnbound(session, hardwarePublicInputs) ==
    IF Len(hardwarePublicInputs) < 3 THEN "Invalid hardware public inputs"
    ELSE "pass"

\* execute, step 3: the touch came from the device the session is bound to
deviceCheck(session, hardwarePublicInputs) ==
    IF Len(hardwarePublicInputs) < 3 THEN "Invalid hardware public inputs"
    ELSE IF DeviceIdOf(hardwarePublicInputs[2], hardwarePublicInputs[3]) # session.deviceId
         THEN "InvalidDeviceSignature"
    ELSE "pass"

\* execute, step 4: the signature over (data, block.timestamp) recovers to the
\* address derived from the stored session public key
signatureCheck(session, data, sig) ==
    IF ecrecover(dataHash(data, now), sig)
         # getSessionAddress(session.sessionPubKeyX, session.sessionPubKeyY)
    THEN "InvalidSessionSignature"
    ELSE "pass"

\* checks of execute that look at the device before the proof
executeErrDeviceFirst(sender, data, sig, hardwareProof, hardwarePublicInputs) ==
    LET session == sessions[sender]
        e1 == sessionCheck(session)
        e2 == proofCheck(hardwareProof, hardwarePublicInputs)
        e3 == deviceCheck(session, hardwarePublicInputs)
        e4 == signatureCheck(session, data, sig)
    IN IF e1 # "pass" THEN e1
       ELSE IF e3 # "pass" THEN e3
       ELSE IF e2 # "pass" THEN e2
       ELSE e4

\* execute, steps 1 to 4: the first check that reverts, "pass" when none does
executeErr(sender, data, sig, hardwareProof, hardwarePublicInputs) ==
    LET session == sessions[sender]
        e1 == sessionCheck(session)
        e2 == proofCheck(hardwareProof, hardwarePublicInputs)
        e3 == deviceCheck(session, hardwarePublicInputs)
        e4 == signatureCheck(session, data, sig)
    IN IF e1 # "pass" THEN e1
       ELSE IF e2 # "pass" THEN e2
       ELSE IF e3 # "pass" THEN e3
       ELSE e4

\* what msg.sender's code may do when it receives the payload: return, revert,
\* or call back into revokeSession() and return
Callees == {"return", "revert", "revokeSession"}

\* execute: step 5 is msg.sender.call(data); the session was copied to memory
\* before the call, so a callee that re-enters does not stop the emit
execute(sender, data, sig, hardwareProof, hardwarePublicInputs, callee) ==
    LET err == executeErr(sender, data, sig, hardwareProof, hardwarePublicInputs)
        device == InputDeviceId(hardwarePublicInputs)
        recovered == ecrecover(dataHash(data, now), sig)
        args == <<data, sig, hardwareProof, hardwarePublicInputs>>
    IN
    /\ IF err # "pass"
       THEN /\ callee = "return"
            /\ last' = Call(SD, "execute", sender, err, <<>>, <<>>, device, recovered,
                            <<>>)
            /\ UNCHANGED sessions
       ELSE IF callee = "revert"
       THEN /\ last' = Call(SD, "execute", sender, "ExecutionFailed", <<>>, <<>>,
                            device, recovered, <<>>)
            /\ UNCHANGED sessions
       ELSE IF callee = "revokeSession"
       THEN /\ sessions' = [sessions EXCEPT ![sender].isActive = FALSE]
            /\ last' = Call(SD, "execute", sender, "ok",
                            <<"SessionRevoked", "SessionExecuted">>, <<data>>,
                            device, recovered, args)
       ELSE /\ last' = Call(SD, "execute", sender, "ok", <<"SessionExecuted">>,
                            <<data>>, device, recovered, args)
            /\ UNCHANGED sessions
    /\ UNCHANGED <<devices, ownerDevices, dmVars, mockResult, now, deployed>>

revokeSessionErr(sender) ==
    IF ~sessions[sender].isActive THEN "SessionNotFound" ELSE "ok"

\* a revokeSession that emits SessionRevoked and leaves the flag set
revokeSessionKeepsFlag(sender) ==
    LET err == revokeSessionErr(sender) IN
    /\ last' = Call(SD, "revokeSession", sender, err,
                    IF err = "ok" THEN <<"SessionRevoked">> ELSE <<>>, <<>>,
                    ZeroBytes32, ZeroAddress, <<>>)
    /\ UNCHANGED <<sdVars, dmVars, mockResult, now, deployed>>

\* a revokeSession that deletes the slot
revokeSessionClearsSlot(sender) ==
    LET err == revokeSessionErr(sender) IN
    /\ IF err = "ok"
       THEN /\ sessions' = [sessions EXCEPT ![sender] = EmptySession]
            /\ last' = Call(SD, "revokeSession", sender, "ok", <<"SessionRevoked">>,
                            <<>>, ZeroBytes32, ZeroAddress, <<>>)
       ELSE /\ last' = Call(SD, "revokeSession", sender, err, <<>>, <<>>, ZeroBytes32,
                            ZeroAddress, <<>>)
            /\ UNCHANGED sessions
    /\ UNCHANGED <<devices, ownerDevices, dmVars, mockResult, now, deployed>>

revokeSession(sender) ==
    LET err == revokeSessionErr(sender) IN
    /\ IF err = "ok"
       THEN /\ sessions' = [sessions EXCEPT ![sender].isActive = FALSE]
            /\ last' = Call(SD, "revokeSession", sender, "ok", <<"SessionRevoked">>,
                            <<>>, ZeroBytes32, ZeroAddress, <<>>)
       ELSE /\ last' = Call(SD, "revokeSession", sender, err, <<>>, <<>>, ZeroBytes32,
                            ZeroAddress, <<>>)
            /\ UNCHANGED sessions
    /\ UNCHANGED <<devices, ownerDevices, dmVars, mockResult, now, deployed>>

\* a cleanup that deactivates any active session, expired or not
cleanupAnySession(sender, owner) ==
    /\ IF sessions[owner].isActive
       THEN /\ sessions' = [sessions EXCEPT ![owner].isActive = FALSE]
            /\ last' = Call(SD, "cleanupExpiredSession", sender, "ok",
                            <<"SessionRevoked">>, <<>>, ZeroBytes32, ZeroAddress,
                            <<owner>>)
       ELSE /\ last' = Call(SD, "cleanupExpiredSession", sender, "ok", <<>>, <<>>,
                            ZeroBytes32, ZeroAddress, <<owner>>)
            /\ UNCHANGED sessions
    /\ UNCHANGED <<devices, ownerDevices, dmVars, mockResult, now, deployed>>

\* a cleanup that already clears the flag one second before expiry
cleanupExpiredSessionEarly(sender, owner) ==
    /\ IF sessions[owner].isActive /\ now + 1 >= sessions[owner].expires
       THEN /\ sessions' = [sessions EXCEPT ![owner].isActive = FALSE]
            /\ last' = Call(SD, "cleanupExpiredSession", sender, "ok",
                            <<"SessionRevoked">>, <<>>, ZeroBytes32, ZeroAddress,
                            <<owner>>)
       ELSE /\ last' = Call(SD, "cleanupExpiredSession", sender, "ok", <<>>, <<>>,
                            ZeroBytes32, ZeroAddress, <<owner>>)
            /\ UNCHANGED sessions
    /\ UNCHANGED <<devices, ownerDevices, dmVars, mockResult, now, deployed>>

\* a cleanup that emits SessionRevoked for every expired slot, cleared or not
cleanupExpiredSessionAlwaysEmits(sender, owner) ==
    /\ IF now >= sessions[owner].expires /\ sessions[owner].owner # ZeroAddress
       THEN /\ sessions' = [sessions EXCEPT ![owner].isActive = FALSE]
            /\ last' = Call(SD, "cleanupExpiredSession", sender, "ok",
                            <<"SessionRevoked">>, <<>>, ZeroBytes32, ZeroAddress,
                            <<owner>>)
       ELSE /\ last' = Call(SD, "cleanupExpiredSession", sender, "ok", <<>>, <<>>,
                            ZeroBytes32, ZeroAddress, <<owner>>)
            /\ UNCHANGED sessions
    /\ UNCHANGED <<devices, ownerDevices, dmVars, mockResult, now, deployed>>

\* cleanupExpiredSession(owner): callable by anyone, never reverts
cleanupExpiredSession(sender, owner) ==
    /\ IF sessions[owner].isActive /\ now >= sessions[owner].expires
       THEN /\ sessions' = [sessions EXCEPT ![owner].isActive = FALSE]
            /\ last' = Call(SD, "cleanupExpiredSession", sender, "ok",
                            <<"SessionRevoked">>, <<>>, ZeroBytes32, ZeroAddress,
                            <<owner>>)
       ELSE /\ last' = Call(SD, "cleanupExpiredSession", sender, "ok", <<>>, <<>>,
                            ZeroBytes32, ZeroAddress, <<owner>>)
            /\ UNCHANGED sessions
    /\ UNCHANGED <<devices, ownerDevices, dmVars, mockResult, now, deployed>>

\* a session view that still reports the session active at now = expires
getSessionInfoInclusive(owner) ==
    LET session == sessions[owner] IN
    [isActive |-> session.isActive /\ now <= session.expires,
     expiresAt |-> session.expires,
     timeRemaining |-> IF session.expires > now THEN session.expires - now ELSE 0,
     sessionPubKeyX |-> session.sessionPubKeyX,
     sessionPubKeyY |-> session.sessionPubKeyY,
     deviceId |-> session.deviceId,
     encryptedSessionKey |-> session.encryptedSessionKey]

\* a session view that reports the expiry time as the time remaining
getSessionInfoAbsoluteRemaining(owner) ==
    LET session == sessions[owner] IN
    [isActive |-> session.isActive /\ now < session.expires,
     expiresAt |-> session.expires,
     timeRemaining |-> session.expires,
     sessionPubKeyX |-> session.sessionPubKeyX,
     sessionPubKeyY |-> session.sessionPubKeyY,
     deviceId |-> session.deviceId,
     encryptedSessionKey |-> session.encryptedSessionKey]

\* getSessionInfo(owner)
getSessionInfo(owner) ==
    LET session == sessions[owner] IN
    [isActive |-> session.isActive /\ now < session.expires,
     expiresAt |-> session.expires,
     timeRemaining |-> IF session.expires > now THEN session.expires - now ELSE 0,
     sessionPubKeyX |-> session.sessionPubKeyX,
     sessionPubKeyY |-> session.sessionPubKeyY,
     deviceId |-> session.deviceId,
     encryptedSessionKey |-> session.encryptedSessionKey]

\* getDeviceInfo(owner, deviceId)
getDeviceInfo(owner, deviceId) == devices[owner][deviceId]

\* getOwnerDevices(owner)
getOwnerDevices(owner) == ownerDevices[owner]

-----------------------------------------------------------------------------
(* DeviceManagerSimple *)

DM == "DeviceManagerSimple"

\* a registration test that trusts the index without comparing the stored id
isDeviceRegisteredByIndex(user, credentialId) ==
    IF Len(userDevices[user]) = 0 THEN FALSE
    ELSE deviceIndex[user][credentialId] < Len(userDevices[user])

\* isDeviceRegistered(user, credentialId); indexes are zero-based as in the
\* code, sequences one-based
isDeviceRegistered(user, credentialId) ==
    IF Len(userDevices[user]) = 0 THEN FALSE
    ELSE LET index == deviceIndex[user][credentialId] IN
         IF index >= Len(userDevices[user]) THEN FALSE
         ELSE userDevices[user][index + 1].credentialId = credentialId

\* getDevice(user, credentialId), defined where isDeviceRegistered holds
getDevice(user, credentialId) ==
    userDevices[user][deviceIndex[user][credentialId] + 1]

dmRegisterDeviceErr(sender, credentialId) ==
    IF isDeviceRegistered(sender, credentialId) THEN "DeviceAlreadyExists" ELSE "ok"

\* a registration that puts the new device in front of the list
dmRegisterDevicePrepends(sender, credentialId, publicKey, deviceName) ==
    LET err == dmRegisterDeviceErr(sender, credentialId) IN
    /\ IF err = "ok"
       THEN LET newDevice == [credentialId |-> credentialId, publicKey |-> publicKey,
                              deviceName |-> deviceName, registeredAt |-> now,
                              isActive |-> TRUE]
                index == Len(userDevices[sender])
            IN /\ userDevices' = [userDevices EXCEPT ![sender] = <<newDevice>> \o @]
               /\ deviceIndex' = [deviceIndex EXCEPT ![sender][credentialId] = index]
               /\ last' = Call(DM, "registerDevice", sender, "ok",
                               <<"DeviceRegistered">>, <<>>, credentialId, ZeroAddress,
                               <<credentialId, publicKey, deviceName>>)
       ELSE /\ last' = Call(DM, "registerDevice", sender, err, <<>>, <<>>,
                            credentialId, ZeroAddress, <<>>)
            /\ UNCHANGED <<userDevices, deviceIndex>>
    /\ UNCHANGED <<userSessions, sessionIndex, sdVars, mockResult, now, deployed>>

\* DeviceManagerSimple.registerDevice
dmRegisterDevice(sender, credentialId, publicKey, deviceName) ==
    LET err == dmRegisterDeviceErr(sender, credentialId) IN
    /\ IF err = "ok"
       THEN LET newDevice == [credentialId |-> credentialId, publicKey |-> publicKey,
                              deviceName |-> deviceName, registeredAt |-> now,
                              isActive |-> TRUE]
                index == Len(userDevices[sender])
            IN /\ userDevices' = [userDevices EXCEPT ![sender] = Append(@, newDevice)]
               /\ deviceIndex' = [deviceIndex EXCEPT ![sender][credentialId] = index]
               /\ last' = Call(DM, "registerDevice", sender, "ok",
                               <<"DeviceRegistered">>, <<>>, credentialId, ZeroAddress,
                               <<credentialId, publicKey, deviceName>>)
       ELSE /\ last' = Call(DM, "registerDevice", sender, err, <<>>, <<>>,
                            credentialId, ZeroAddress, <<>>)
            /\ UNCHANGED <<userDevices, deviceIndex>>
    /\ UNCHANGED <<userSessions, sessionIndex, sdVars, mockResult, now, deployed>>

\* session-creation checks without the device status check
createSessionErrIgnoresStatus(sender, deviceCredentialId) ==
    IF ~isDeviceRegistered(sender, deviceCredentialId) THEN "DeviceNotFound" ELSE "ok"

createSessionErr(sender, deviceCredentialId) ==
    IF ~isDeviceRegistered(sender, deviceCredentialId) THEN "DeviceNotFound"
    ELSE IF ~getDevice(sender, deviceCredentialId).isActive THEN "Device is inactive"
    ELSE "ok"

\* DeviceManagerSimple.createSession
createSession(sender, sessionKey, duration, gasLimit, deviceCredentialId) ==
    LET err == createSessionErr(sender, deviceCredentialId) IN
    /\ IF err = "ok"
       THEN LET newSession == [sessionKey |-> sessionKey, expiresAt |-> now + duration,
                               gasLimit |-> gasLimit, isActive |-> TRUE,
                               authorizedBy |-> deviceCredentialId]
                index == Len(userSessions[sender])
            IN /\ userSessions' = [userSessions EXCEPT ![sender] = Append(@, newSession)]
               /\ sessionIndex' = [sessionIndex EXCEPT ![sender][sessionKey] = index]
               /\ last' = Call(DM, "createSession", sender, "ok",
                               <<"SessionCreated">>, <<>>, deviceCredentialId,
                               ZeroAddress,
                               <<sessionKey, duration, gasLimit, deviceCredentialId>>)
       ELSE /\ last' = Call(DM, "createSession", sender, err, <<>>, <<>>,
                            deviceCredentialId, ZeroAddress, <<>>)
            /\ UNCHANGED <<userSessions, sessionIndex>>
    /\ UNCHANGED <<userDevices, deviceIndex, sdVars, mockResult, now, deployed>>

\* a validity check that still accepts the session at now = expiresAt
isValidSessionInclusive(user, sessionKey) ==
    IF sessionIndex[user][sessionKey] = 0 /\ Len(userSessions[user]) = 0 THEN FALSE
    ELSE LET index == sessionIndex[user][sessionKey] IN
         IF index >= Len(userSessions[user]) THEN FALSE
         ELSE LET session == userSessions[user][index + 1] IN
              session.isActive /\ session.expiresAt >= now

\* DeviceManagerSimple.isValidSession(user, sessionKey)
isValidSession(user, sessionKey) ==
    IF sessionIndex[user][sessionKey] = 0 /\ Len(userSessions[user]) = 0 THEN FALSE
    ELSE LET index == sessionIndex[user][sessionKey] IN
         IF index >= Len(userSessions[user]) THEN FALSE
         ELSE LET session == userSessions[user][index + 1] IN
              session.isActive /\ session.expiresAt > now

dmRevokeSessionErr(sender, sessionKey, deviceCredentialId) ==
    IF ~isDeviceRegistered(sender, deviceCredentialId) THEN "DeviceNotFound"
    ELSE IF sessionIndex[sender][sessionKey] >= Len(userSessions[sender])
         THEN "SessionNotFound"
    ELSE "ok"

\* DeviceManagerSimple.revokeSession
dmRevokeSession(sender, sessionKey, deviceCredentialId) ==
    LET err == dmRevokeSessionErr(sender, sessionKey, deviceCredentialId) IN
    /\ IF err = "ok"
       THEN LET index == sessionIndex[sender][sessionKey] IN
            /\ userSessions' = [userSessions EXCEPT ![sender][index + 1].isActive = FALSE]
            /\ last' = Call(DM, "revokeSession", sender, "ok", <<"SessionRevoked">>,
                            <<>>, deviceCredentialId, ZeroAddress,
                            <<sessionKey, deviceCredentialId>>)
       ELSE /\ last' = Call(DM, "revokeSession", sender, err, <<>>, <<>>,
                            deviceCredentialId, ZeroAddress, <<>>)
            /\ UNCHANGED userSessions
    /\ UNCHANGED <<userDevices, deviceIndex, sessionIndex, sdVars, mockResult, now,
                   deployed>>

setDeviceStatusErr(sender, credentialId) ==
    IF ~isDeviceRegistered(sender, credentialId) THEN "Device not found" ELSE "ok"

\* a status change that applies to every device of the caller
setDeviceStatusOfAll(sender, credentialId, isActive) ==
    LET err == setDeviceStatusErr(sender, credentialId) IN
    /\ IF err = "ok"
       THEN /\ userDevices' = [userDevices EXCEPT ![sender] =
                    [i \in 1..Len(@) |-> [@[i] EXCEPT !.isActive = isActive]]]
            /\ last' = Call(DM, "setDeviceStatus", sender, "ok", <<>>, <<>>,
                            credentialId, ZeroAddress, <<credentialId, isActive>>)
       ELSE /\ last' = Call(DM, "setDeviceStatus", sender, err, <<>>, <<>>,
                            credentialId, ZeroAddress, <<>>)
            /\ UNCHANGED userDevices
    /\ UNCHANGED <<deviceIndex, userSessions, sessionIndex, sdVars, mockResult, now,
                   deployed>>

\* DeviceManagerSimple.setDeviceStatus: emits nothing
setDeviceStatus(sender, credentialId, isActive) ==
    LET err == setDeviceStatusErr(sender, credentialId) IN
    /\ IF err = "ok"
       THEN LET index == deviceIndex[sender][credentialId] IN
            /\ userDevices' = [userDevices EXCEPT ![sender][index + 1].isActive = isActive]
            /\ last' = Call(DM, "setDeviceStatus", sender, "ok", <<>>, <<>>,
                            credentialId, ZeroAddress, <<credentialId, isActive>>)
       ELSE /\ last' = Call(DM, "setDeviceStatus", sender, err, <<>>, <<>>,
                            credentialId, ZeroAddress, <<>>)
            /\ UNCHANGED userDevices
    /\ UNCHANGED <<deviceIndex, userSessions, sessionIndex, sdVars, mockResult, now,
                   deployed>>

\* getUserDevices(user)
getUserDevices(user) == userDevices[user]

\* getUserSessions(user)
getUserSessions(user) == userSessions[user]

-----------------------------------------------------------------------------
(* Time *)

\* a clock that starts over after MaxTime
TickWraps ==
    /\ now' = (now + 1) % (MaxTime + 1)
    /\ last' = NoCall
    /\ UNCHANGED <<sdVars, dmVars, mockResult, deployed>>

\* a clock that stops one block before MaxTime
TickStopsEarly ==
    /\ now + 1 < MaxTime
    /\ now' = now + 1
    /\ last' = NoCall
    /\ UNCHANGED <<sdVars, dmVars, mockResult, deployed>>

\* a later block
Tick ==
    /\ now < MaxTime
    /\ now' = now + 1
    /\ last' = NoCall
    /\ UNCHANGED <<sdVars, dmVars, mockResult, deployed>>

\* the sender reads the receipt; the next transaction can be sent
Settle ==
    /\ last # NoCall
    /\ last' = NoCall
    /\ UNCHANGED <<sdVars, dmVars, mockResult, now, deployed>>

-----------------------------------------------------------------------------
(* The inputs explored *)

\* wallet signatures submitted with a startSession call whose intent digest is
\* h: by either owner over h, by the sender over the digest of another
\* timestamp, and one that is not 65 bytes long
WalletSigs(sender, h) ==
    {[length |-> 65, digest |-> h, addr |-> o] : o \in Owners}
        \cup {[length |-> 65, digest |-> [h EXCEPT ![7] = @ + 1], addr |-> sender],
              [length |-> 64, digest |-> h, addr |-> sender]}

\* session signatures (v, r, s) submitted with execute: over the payload at
\* some timestamp, recovering to the address the contract derives from a
\* session public key or to the Ethereum address of a session key pair
SessionSigs ==
    {[digest |-> dataHash(d, t), addr |-> a] :
        d \in Payloads, t \in 0..MaxTime,
        a \in {getSessionAddress(k[1], k[2]) : k \in SessionKeys}
                \cup {KeyAddress(k[1], k[2]) : k \in {<<1, 0>>}}}

\* WebAuthn credential ids that calls refer to
CredentialIds == {"cred1", "cred2"}

\* session key addresses that calls refer to
SessionKeyAddresses == {"sk1", "sk2"}

GasLimits == {100000}

\* with both owners active, each registers credential cred1 with one public
\* key and creates one session for key sk1 in DeviceManagerSimple
SharedCredentialIds == {"cred1"}

SharedSessionKeyAddresses == {"sk1"}

SharedSessionSlots == {0}

\* no transaction is in flight
Idle == last = NoCall

Init ==
    /\ sessions = [o \in Owners |-> EmptySession]
    /\ devices = [o \in Owners |-> [d \in DeviceIds |-> EmptyDevice]]
    /\ ownerDevices = [o \in Owners |-> <<>>]
    /\ userDevices = [o \in Owners |-> <<>>]
    /\ deviceIndex = [o \in Owners |-> [c \in CredentialIds |-> 0]]
    /\ userSessions = [o \in Owners |-> <<>>]
    /\ sessionIndex = [o \in Owners |-> [k \in SessionKeyAddresses |-> 0]]
    /\ mockResult = TRUE
    /\ now = 0
    /\ deployed \in {SD, DM}
    /\ last = NoCall

SDRegisterDevice ==
    /\ Idle /\ deployed = SD
    /\ \E o \in Owners :
        \E p \in ProofPairs(OwnDeviceKeys(o)), n \in DeviceNames :
            registerDevice(o, p.proof, p.inputs, n)

SDStartSession ==
    /\ Idle /\ deployed = SD
    /\ \E o \in Owners :
        \E p \in ProofPairs(OwnDeviceKeys(o)), k \in OwnSessionKeys(o),
           ttl \in Ttls, enc \in EncryptedKeys :
          \E w \in WalletSigs(o, sessionHash(o, k[1], k[2], ttl,
                                              InputDeviceId(p.inputs), enc, now)) :
              startSession(o, p.proof, p.inputs, w, k[1], k[2], ttl, enc)

SDExecute ==
    /\ Idle /\ deployed = SD
    /\ \E o \in Owners, d \in Payloads, sig \in SessionSigs,
          p \in ProofPairs(DeviceKeys), callee \in Callees :
        execute(o, d, sig, p.proof, p.inputs, callee)

SDRevokeSession ==
    /\ Idle /\ deployed = SD
    /\ \E o \in Owners : revokeSession(o)

SDCleanupExpiredSession ==
    /\ Idle /\ deployed = SD
    /\ \E o \in Owners, owner \in Owners : cleanupExpiredSession(o, owner)

SetMockResult ==
    /\ Idle /\ deployed = SD
    /\ \E b \in BOOLEAN : setMockResult(b)

DMRegisterDevice ==
    /\ Idle /\ deployed = DM
    /\ \E o \in Owners, c \in SharedCredentialIds, n \in DeviceNames :
        dmRegisterDevice(o, c, <<1, 1>>, n)

DMCreateSession ==
    /\ Idle /\ deployed = DM
    /\ \E o \in Owners :
        /\ Len(userSessions[o]) \in SharedSessionSlots
        /\ \E k \in SharedSessionKeyAddresses, d \in Ttls, g \in GasLimits,
              c \in CredentialIds :
            createSession(o, k, d, g, c)

DMRevokeSession ==
    /\ Idle /\ deployed = DM
    /\ \E o \in Owners, k \in SessionKeyAddresses, c \in CredentialIds :
        dmRevokeSession(o, k, c)

DMSetDeviceStatus ==
    /\ Idle /\ deployed = DM
    /\ \E o \in Owners, c \in CredentialIds, b \in BOOLEAN : setDeviceStatus(o, c, b)

TickBlock == Idle /\ Tick

Next ==
    \/ SDRegisterDevice
    \/ SDStartSession
    \/ SDExecute
    \/ SDRevokeSession
    \/ SDCleanupExpiredSession
    \/ SetMockResult
    \/ DMRegisterDevice
    \/ DMCreateSession
    \/ DMRevokeSession
    \/ DMSetDeviceStatus
    \/ TickBlock
    \/ Settle

Spec == Init /\ [][Next]_vars

-----------------------------------------------------------------------------
(* DeviceManagerSimple driven by one user with two credentials, two session
   keys and up to two sessions *)

\* the user whose calls are explored
DeviceOwner == "A"

\* the public key registered with a credential
CredentialKey(c) == IF c = "cred1" THEN <<1, 1>> ELSE <<1, 2>>

\* lengths of userSessions[msg.sender] at which createSession is explored
OwnerSessionSlots == {0, 1}

InitDM == Init /\ deployed = DM

OwnerRegisterDevice ==
    /\ Idle
    /\ \E c \in CredentialIds, n \in DeviceNames :
        dmRegisterDevice(DeviceOwner, c, CredentialKey(c), n)

OwnerCreateSession ==
    /\ Idle
    /\ Len(userSessions[DeviceOwner]) \in OwnerSessionSlots
    /\ \E k \in SessionKeyAddresses, d \in Ttls, g \in GasLimits, c \in CredentialIds :
        createSession(DeviceOwner, k, d, g, c)

OwnerRevokeSession ==
    /\ Idle
    /\ \E k \in SessionKeyAddresses, c \in CredentialIds :
        dmRevokeSession(DeviceOwner, k, c)

OwnerSetDeviceStatus ==
    /\ Idle
    /\ \E c \in CredentialIds, b \in BOOLEAN : setDeviceStatus(DeviceOwner, c, b)

NextDM ==
    \/ OwnerRegisterDevice
    \/ OwnerCreateSession
    \/ OwnerRevokeSession
    \/ OwnerSetDeviceStatus
    \/ TickBlock
    \/ Settle

SpecDM == InitDM /\ [][NextDM]_vars

-----------------------------------------------------------------------------
(* SessionDelegate driven by one owner while block time keeps advancing *)

InitLive == Init /\ deployed = SD

LiveRegisterDevice ==
    /\ Idle
    /\ \E p \in ProofPairs(DeviceKeys), n \in DeviceNames :
        registerDevice(DeviceOwner, p.proof, p.inputs, n)

\* sessions are started with a ttl that ends within the explored time
LiveStartSession ==
    /\ Idle
    /\ \E p \in ProofPairs(DeviceKeys), k \in SessionKeys, ttl \in Ttls,
          enc \in EncryptedKeys :
        /\ now + ttl <= MaxTime
        /\ \E w \in WalletSigs(DeviceOwner,
                               sessionHash(DeviceOwner, k[1], k[2], ttl,
                                           InputDeviceId(p.inputs), enc, now)) :
            startSession(DeviceOwner, p.proof, p.inputs, w, k[1], k[2], ttl, enc)

LiveExecute ==
    /\ Idle
    /\ \E d \in Payloads, sig \in SessionSigs, p \in ProofPairs(DeviceKeys),
          callee \in Callees :
        execute(DeviceOwner, d, sig, p.proof, p.inputs, callee)

LiveRevokeSession == Idle /\ revokeSession(DeviceOwner)

LiveCleanupExpiredSession ==
    /\ Idle
    /\ \E sender \in Owners : cleanupExpiredSession(sender, DeviceOwner)

NextLive ==
    \/ LiveRegisterDevice
    \/ LiveStartSession
    \/ LiveExecute
    \/ LiveRevokeSession
    \/ LiveCleanupExpiredSession
    \/ TickBlock
    \/ Settle

\* block time advances whatever is called, and every receipt is read; no
\* call, cleanupExpiredSession included, is ever forced to happen
SpecLive ==
    /\ InitLive
    /\ [][NextLive]_vars
    /\ SF_vars(TickBlock)
    /\ WF_vars(Settle)

-----------------------------------------------------------------------------
(* Properties *)

\* the receipt of a SessionDelegate / DeviceManagerSimple call named op
IsCall(r, c, op) == r.contract = c /\ r.op = op

\* the well-formed and malformed touch proofs execute is tried with
TouchPairs == ProofPairs(DeviceKeys)

\* C1 as stated: an execute whose touch proof encodes a device id other than
\* the one stored in the caller's session always fails with the device-binding
\* error InvalidDeviceSignature, in every state and for every input.
C1_AlwaysDeviceBindingError ==
    (/\ IsCall(last, SD, "execute")
     /\ last.device \in DeviceIds
     /\ sessions[last.caller].owner # ZeroAddress
     /\ last.device # sessions[last.caller].deviceId)
        => last.err = "InvalidDeviceSignature"

\* C1 amended: an execute whose touch proof encodes a device id other than the
\* one stored in the caller's session never dispatches; it fails with
\* InvalidDeviceSignature whenever the session is valid and the verifier
\* accepts the proof, whatever the session signature, and with the error of
\* the session or proof check otherwise.
C1_DeviceBinding ==
    /\ (IsCall(last, SD, "execute") /\ last.device \in DeviceIds
            /\ last.device # sessions[last.caller].deviceId)
        => /\ last.dispatched = <<>>
           /\ last.err \in {"SessionNotFound", "SessionExpired", "Empty proof",
                            "InvalidZKProof", "InvalidDeviceSignature"}
    /\ Idle =>
        \A o \in Owners, d \in Payloads, sig \in SessionSigs, p \in TouchPairs :
            (InputDeviceId(p.inputs) \in DeviceIds
                /\ InputDeviceId(p.inputs) # sessions[o].deviceId)
            => LET e == executeErr(o, d, sig, p.proof, p.inputs) IN
               /\ e # "pass"
               /\ (getSessionInfo(o).isActive /\ verify(p.proof, p.inputs) = "true")
                    => e = "InvalidDeviceSignature"

\* C1 witness: a valid session bound to one registered device, the verifier
\* accepting, a signature that recovers to the session address, and a touch
\* from the owner's other registered device: rejected for the device alone.
C1_Witness ==
    /\ IsCall(last, SD, "execute")
    /\ last.err = "InvalidDeviceSignature"
    /\ getSessionInfo(last.caller).isActive
    /\ mockResult
    /\ last.signer = getSessionAddress(sessions[last.caller].sessionPubKeyX,
                                       sessions[last.caller].sessionPubKeyY)
    /\ devices[last.caller][last.device].isRegistered

\* C2: execute dispatches the payload and emits SessionExecuted only if, in
\* the state and at the time of the call, the caller's session is active and
\* unexpired, the verifier accepts the touch proof, the touch device id equals
\* session.deviceId and the signature recovers to the address of the stored
\* session public key; an execute stopped by one of these checks changes no
\* state, emits nothing and dispatches nothing.
C2_DispatchOnlyAfterAllChecks ==
    [][IsCall(last', SD, "execute") =>
        LET session == sessions[last'.caller] IN
        IF last'.dispatched # <<>> \/ last'.events # <<>>
        THEN /\ session.isActive
             /\ now < session.expires
             /\ verify(last'.args[3], last'.args[4]) = "true"
             /\ last'.device = session.deviceId
             /\ last'.signer = getSessionAddress(session.sessionPubKeyX,
                                                 session.sessionPubKeyY)
             /\ last'.dispatched = <<last'.args[1]>>
             /\ last'.events[Len(last'.events)] = "SessionExecuted"
        ELSE /\ last'.err # "ok"
             /\ UNCHANGED <<sdVars, dmVars, mockResult, now>>]_vars

\* C2 witness: an execute that passed all four checks and dispatched.
C2_Witness ==
    /\ IsCall(last, SD, "execute")
    /\ last.err = "ok"
    /\ last.dispatched = <<"tx">>
    /\ last.events = <<"SessionExecuted">>

\* C3: a successful revokeSession by an owner leaves the owner's session
\* invalid (getSessionInfo.isActive = FALSE), and from then on the slot stays
\* inactive through every step other than a successful startSession by that
\* owner, and every execute by the owner in that time fails with
\* SessionNotFound or SessionExpired and dispatches nothing.
C3_RevokedUntilRestart ==
    [][\A o \in Owners :
        /\ (/\ last'.caller = o /\ last'.err = "ok"
            /\ \/ IsCall(last', SD, "revokeSession")
               \/ IsCall(last', SD, "execute") /\ last'.events[1] = "SessionRevoked")
            => (~sessions[o].isActive /\ ~getSessionInfo(o).isActive)'
        /\ (~sessions[o].isActive
                /\ ~(IsCall(last', SD, "startSession") /\ last'.caller = o
                        /\ last'.err = "ok"))
            => /\ (~sessions[o].isActive /\ ~getSessionInfo(o).isActive)'
               /\ (IsCall(last', SD, "execute") /\ last'.caller = o)
                    => /\ last'.err \in {"SessionNotFound", "SessionExpired"}
                       /\ last'.dispatched = <<>>]_vars

\* C3 witness: an execute refused with SessionNotFound on a session that was
\* revoked before its expiry.
C3_Witness ==
    /\ IsCall(last, SD, "execute")
    /\ last.err = "SessionNotFound"
    /\ sessions[last.caller].owner = last.caller
    /\ ~sessions[last.caller].isActive
    /\ now < sessions[last.caller].expires

\* C4: a session whose authorizing device has been deactivated can no longer
\* be used: while the device that authorized a DeviceManagerSimple session is
\* registered but inactive, isValidSession rejects the session.
C4_InactiveDeviceInvalidatesSession ==
    \A u \in Owners :
        \A i \in 1..Len(userSessions[u]) :
            LET session == userSessions[u][i] IN
            (/\ sessionIndex[u][session.sessionKey] = i - 1
             /\ isDeviceRegistered(u, session.authorizedBy)
             /\ ~getDevice(u, session.authorizedBy).isActive)
                => ~isValidSession(u, session.sessionKey)

\* the slot a successful startSession with these arguments must leave
SubmittedSlot(caller, args, time) ==
    [owner |-> caller, sessionPubKeyX |-> args[2], sessionPubKeyY |-> args[3],
     expires |-> time + args[4], isActive |-> TRUE,
     deviceId |-> InputDeviceId(args[1]), encryptedSessionKey |-> args[5]]

\* the session signatures that the slot `session` accepted for some payload at
\* the current timestamp: those made with the session's key
SignedWithKeyOf(session) ==
    {sig \in SessionSigs :
        \E d \in Payloads :
            ecrecover(dataHash(d, now), sig)
                = getSessionAddress(session.sessionPubKeyX, session.sessionPubKeyY)}

\* C5 as stated: the sessions mapping holds one slot per owner; a successful
\* startSession leaves in the caller's slot exactly the submitted session
\* public key, device id and blob with expires = now + ttl and active = TRUE;
\* and an execute signed with the key of the session it replaced then fails
\* with InvalidSessionSignature, whatever the state of the replaced session.
C5_SupersededKeyAlwaysRejected ==
    [][\A o \in Owners :
        (IsCall(last', SD, "startSession") /\ last'.err = "ok" /\ last'.caller = o) =>
            /\ sessions'[o] = SubmittedSlot(o, last'.args, now')
            /\ sessions[o].owner # ZeroAddress =>
                \A sig \in SignedWithKeyOf(sessions[o]), d \in Payloads, p \in TouchPairs :
                    InputDeviceId(p.inputs) = sessions'[o].deviceId =>
                        executeErr(o, d, sig, p.proof, p.inputs)'
                            = "InvalidSessionSignature"]_vars

\* C5 amended: the sessions mapping holds one slot per owner; a successful
\* startSession leaves in the caller's slot exactly the submitted session
\* public key, device id and blob with expires = now + ttl and active = TRUE;
\* when the new session public key differs from the one it replaced, no
\* execute signed with the replaced key passes the checks any more, whatever
\* the state of the replaced session: it fails with InvalidSessionSignature
\* once the session, proof and device checks pass.
C5_SlotReplaced ==
    [][/\ DOMAIN sessions' = Owners
       /\ \A o \in Owners : sessions'[o].owner \in {ZeroAddress, o}
       /\ \A o \in Owners :
            (IsCall(last', SD, "startSession") /\ last'.err = "ok" /\ last'.caller = o) =>
                /\ sessions'[o] = SubmittedSlot(o, last'.args, now')
                /\ (sessions[o].owner # ZeroAddress
                    /\ <<sessions[o].sessionPubKeyX, sessions[o].sessionPubKeyY>>
                        # <<sessions'[o].sessionPubKeyX, sessions'[o].sessionPubKeyY>>) =>
                    \A sig \in SignedWithKeyOf(sessions[o]), d \in Payloads,
                       p \in TouchPairs :
                        /\ executeErr(o, d, sig, p.proof, p.inputs)' # "pass"
                        /\ (sessionCheck(sessions[o])' = "pass"
                              /\ proofCheck(p.proof, p.inputs)' = "pass"
                              /\ deviceCheck(sessions[o], p.inputs)' = "pass")
                            => executeErr(o, d, sig, p.proof, p.inputs)'
                                = "InvalidSessionSignature"]_vars

\* C5 witness: a startSession that replaced a session holding another key.
C5_Witness ==
    /\ IsCall(last, SD, "startSession")
    /\ last.err = "ok"
    /\ sessions[last.caller] = SubmittedSlot(last.caller, last.args, now)
    /\ last.overwritten \notin {ZeroAddress, getSessionAddress(last.args[2], last.args[3])}
    /\ \E sig \in SessionSigs, d \in Payloads, p \in TouchPairs :
        /\ sig.digest = dataHash(d, now)
        /\ sig.addr = last.overwritten
        /\ executeErr(last.caller, d, sig, p.proof, p.inputs) = "InvalidSessionSignature"

\* C6: once an execute call has been accepted for an owner, the identical
\* call (payload, signature, touch proof, public inputs) is not accepted a
\* second time, also not at the same timestamp.
C6_NoReplay ==
    (IsCall(last, SD, "execute") /\ last.err = "ok")
        => executeErr(last.caller, last.args[1], last.args[2], last.args[3],
                      last.args[4]) # "pass"

\* what a call by another sender must leave alone: owner a's device records,
\* device list and DeviceManagerSimple lists and indexes
OwnerRecordsUnchanged(a) ==
    /\ devices'[a] = devices[a]
    /\ ownerDevices'[a] = ownerDevices[a]
    /\ userDevices'[a] = userDevices[a]
    /\ deviceIndex'[a] = deviceIndex[a]
    /\ userSessions'[a] = userSessions[a]
    /\ sessionIndex'[a] = sessionIndex[a]

\* C7 as stated: no operation invoked by another owner, cleanupExpiredSession
\* with any argument included, changes an owner's device records, device list
\* or any field of the owner's session slot.
C7_NoCrossOwnerWrite ==
    [][\A a \in Owners :
        last'.caller = OtherOwner(a)
            => OwnerRecordsUnchanged(a) /\ sessions'[a] = sessions[a]]_vars

\* C7 amended: no operation invoked by another owner changes an owner's device
\* records, device list or session slot, except that cleanupExpiredSession(a)
\* invoked by the other owner sets isActive of a's slot to false, and only
\* that field, when a's session is active and now >= expires.
C7_CrossOwnerWriteOnlyByCleanup ==
    [][\A a \in Owners :
        last'.caller = OtherOwner(a)
            => /\ OwnerRecordsUnchanged(a)
               /\ \/ sessions'[a] = sessions[a]
                  \/ /\ IsCall(last', SD, "cleanupExpiredSession")
                     /\ last'.args = <<a>>
                     /\ sessions[a].isActive
                     /\ now >= sessions[a].expires
                     /\ sessions'[a] = [sessions[a] EXCEPT !.isActive = FALSE]]_vars

\* C7 witness: B's cleanupExpiredSession(A) has deactivated A's expired session
\* while A holds a registered device.
C7_Witness ==
    /\ IsCall(last, SD, "cleanupExpiredSession")
    /\ last.caller = "B"
    /\ last.args = <<"A">>
    /\ last.events = <<"SessionRevoked">>
    /\ sessions["A"].owner = "A"
    /\ ~sessions["A"].isActive
    /\ now >= sessions["A"].expires

\* C8 as stated: when a device is registered under owner A only, every
\* startSession, createSession or DeviceManagerSimple.revokeSession by B that
\* refers to it fails with DeviceNotRegistered / DeviceNotFound and changes no
\* session.
C8_AlwaysDeviceNotRegistered ==
    [][\A b \in Owners :
        /\ (/\ IsCall(last', SD, "startSession") /\ last'.caller = b
            /\ last'.device \in DeviceIds
            /\ devices[OtherOwner(b)][last'.device].isRegistered
            /\ ~devices[b][last'.device].isRegistered)
           => last'.err = "DeviceNotRegistered" /\ sessions' = sessions
        /\ (/\ last'.contract = DM /\ last'.op \in {"createSession", "revokeSession"}
            /\ last'.caller = b
            /\ isDeviceRegistered(OtherOwner(b), last'.device)
            /\ ~isDeviceRegistered(b, last'.device))
           => /\ last'.err = "DeviceNotFound"
              /\ UNCHANGED <<userSessions, sessionIndex>>]_vars

\* C8 amended: when a device is registered under owner A only, every
\* startSession, createSession or DeviceManagerSimple.revokeSession by B that
\* refers to it fails and changes no session; createSession and revokeSession
\* fail with DeviceNotFound, startSession fails with DeviceNotRegistered once
\* the proof has passed verification and with the verification error (Empty
\* proof, or InvalidZKProof from a rejecting verifier) otherwise.
C8_ForeignDeviceRejected ==
    [][\A b \in Owners :
        /\ (/\ IsCall(last', SD, "startSession") /\ last'.caller = b
            /\ last'.device \in DeviceIds
            /\ devices[OtherOwner(b)][last'.device].isRegistered
            /\ ~devices[b][last'.device].isRegistered)
           => /\ sessions' = sessions
              /\ last'.events = <<>>
              /\ \/ last'.err = "DeviceNotRegistered"
                 \/ last'.err = "InvalidZKProof" /\ ~mockResult
                 \/ last'.err = "Empty proof"
              /\ last'.err = "DeviceNotRegistered" => mockResult
        /\ (/\ last'.contract = DM /\ last'.op \in {"createSession", "revokeSession"}
            /\ last'.caller = b
            /\ isDeviceRegistered(OtherOwner(b), last'.device)
            /\ ~isDeviceRegistered(b, last'.device))
           => /\ last'.err = "DeviceNotFound"
              /\ last'.events = <<>>
              /\ UNCHANGED <<userSessions, sessionIndex>>]_vars

\* C8 witness: B's startSession with a device registered under A only has
\* failed with DeviceNotRegistered while A holds a session.
C8_Witness ==
    /\ IsCall(last, SD, "startSession")
    /\ last.caller = "B"
    /\ last.err = "DeviceNotRegistered"
    /\ devices["A"][last.device].isRegistered
    /\ ~devices["B"][last.device].isRegistered
    /\ sessions["A"].isActive
    /\ sessions["B"] = EmptySession

\* C9: a call that fails leaves every device record, device list and index
\* and session record as before the call, emits no event and dispatches
\* nothing.
C9_FailureChangesNothing ==
    [][last'.err \notin {"ok", "-"} =>
        /\ UNCHANGED <<sessions, devices, ownerDevices>>
        /\ UNCHANGED <<userDevices, deviceIndex, userSessions, sessionIndex>>
        /\ last'.events = <<>>
        /\ last'.dispatched = <<>>]_vars

\* C9 witness: a startSession has failed on its wallet signature while the
\* caller holds an active session, which the failed call left in place.
C9_Witness ==
    /\ IsCall(last, SD, "startSession")
    /\ last.err = "InvalidWalletSignature"
    /\ sessions[last.caller].owner = last.caller
    /\ sessions[last.caller].isActive

\* the registered devices are reported as registered, their lists hold each of
\* them once, and a further registration with a valid proof is refused
RegisteredDevicesReported ==
    /\ \A o \in Owners :
        /\ \A d \in DeviceIds :
            getDeviceInfo(o, d).isRegistered =>
                /\ DeviceIdOf(getDeviceInfo(o, d).pubKeyX, getDeviceInfo(o, d).pubKeyY) = d
                /\ \E i \in 1..Len(getOwnerDevices(o)) :
                    \A j \in 1..Len(getOwnerDevices(o)) :
                        getOwnerDevices(o)[j] = d <=> j = i
                /\ \A p \in TouchPairs :
                    (InputDeviceId(p.inputs) = d /\ verify(p.proof, p.inputs) = "true")
                        => registerDeviceErr(o, p.proof, p.inputs)
                            = "DeviceAlreadyRegistered"
        /\ \A c \in CredentialIds :
            isDeviceRegistered(o, c) =>
                /\ \E i \in 1..Len(getUserDevices(o)) :
                    \A j \in 1..Len(getUserDevices(o)) :
                        getUserDevices(o)[j].credentialId = c <=> j = i
                /\ dmRegisterDeviceErr(o, c) = "DeviceAlreadyExists"
    /\ (IsCall(last, SD, "registerDevice") /\ last.err = "ok") =>
        getDeviceInfo(last.caller, last.device) =
            [pubKeyX |-> last.args[1][2], pubKeyY |-> last.args[1][3],
             isRegistered |-> TRUE, registeredAt |-> now, deviceName |-> last.args[2]]
    /\ (IsCall(last, DM, "registerDevice") /\ last.err = "ok") =>
        /\ isDeviceRegistered(last.caller, last.device)
        /\ getDevice(last.caller, last.device) =
            [credentialId |-> last.args[1], publicKey |-> last.args[2],
             deviceName |-> last.args[3], registeredAt |-> now, isActive |-> TRUE]

\* C10: after a successful registerDevice the device is reported registered
\* with the public key, name and active state submitted, and stays so with
\* the same key and name; a further registerDevice of it by the same owner
\* with a valid proof fails with DeviceAlreadyRegistered / DeviceAlreadyExists
\* and leaves the owner's device list length unchanged.
C10_RegisteredOnce ==
    /\ []RegisteredDevicesReported
    /\ [][\A o \in Owners :
            /\ \A d \in DeviceIds :
                getDeviceInfo(o, d).isRegistered =>
                    getDeviceInfo(o, d)' = getDeviceInfo(o, d)
            /\ \A c \in CredentialIds :
                isDeviceRegistered(o, c) =>
                    /\ isDeviceRegistered(o, c)'
                    /\ getDevice(o, c)'.publicKey = getDevice(o, c).publicKey
                    /\ getDevice(o, c)'.deviceName = getDevice(o, c).deviceName
            /\ (/\ last'.op = "registerDevice" /\ last'.caller = o
                /\ last'.err \in {"DeviceAlreadyRegistered", "DeviceAlreadyExists"})
               => /\ Len(getOwnerDevices(o))' = Len(getOwnerDevices(o))
                  /\ Len(getUserDevices(o))' = Len(getUserDevices(o))]_vars

\* C10 witness: a second registerDevice of a registered device has failed with
\* DeviceAlreadyRegistered and the owner's list still holds the device once.
C10_Witness ==
    /\ IsCall(last, SD, "registerDevice")
    /\ last.err = "DeviceAlreadyRegistered"
    /\ getDeviceInfo(last.caller, last.device).isRegistered
    /\ getOwnerDevices(last.caller) = <<last.device>>

\* every stored session is bound to a device registered under its owner
SessionDeviceRegistered ==
    \A o \in Owners :
        sessions[o].owner # ZeroAddress =>
            /\ sessions[o].owner = o
            /\ sessions[o].deviceId \in DeviceIds
            /\ getDeviceInfo(o, sessions[o].deviceId).isRegistered

\* C11 as stated: a startSession naming a device that is not registered under
\* the caller fails with DeviceNotRegistered, and every stored session is bound
\* to a device registered under the session's owner.
C11_UnregisteredAlwaysDeviceNotRegistered ==
    /\ []SessionDeviceRegistered
    /\ [][\A o \in Owners :
            (/\ IsCall(last', SD, "startSession") /\ last'.caller = o
             /\ last'.device \in DeviceIds
             /\ ~getDeviceInfo(o, last'.device).isRegistered)
                => last'.err = "DeviceNotRegistered"]_vars

\* C11 amended: every stored session is bound to a device registered under
\* the session's owner, and was so when startSession wrote it; a startSession
\* naming a device that is not registered under the caller never succeeds and
\* changes no slot: it fails with DeviceNotRegistered once the proof has passed
\* verification, and with the verification error otherwise.
C11_SessionOnlyForRegisteredDevice ==
    /\ []SessionDeviceRegistered
    /\ [][\A o \in Owners :
            /\ (IsCall(last', SD, "startSession") /\ last'.caller = o
                    /\ last'.err = "ok")
                => /\ getDeviceInfo(o, last'.device).isRegistered
                   /\ sessions'[o].deviceId = last'.device
            /\ (/\ IsCall(last', SD, "startSession") /\ last'.caller = o
                /\ last'.device \in DeviceIds
                /\ ~getDeviceInfo(o, last'.device).isRegistered)
                => /\ sessions' = sessions
                   /\ \/ last'.err = "DeviceNotRegistered" /\ mockResult
                      \/ last'.err = "InvalidZKProof" /\ ~mockResult
                      \/ last'.err = "Empty proof"]_vars

\* C11 witness: a startSession for a device that is not registered has failed
\* with DeviceNotRegistered while the caller holds a session bound to a device
\* that is.
C11_Witness ==
    /\ IsCall(last, SD, "startSession")
    /\ last.err = "DeviceNotRegistered"
    /\ last.device \in DeviceIds
    /\ ~getDeviceInfo(last.caller, last.device).isRegistered
    /\ sessions[last.caller].owner = last.caller
    /\ getDeviceInfo(last.caller, sessions[last.caller].deviceId).isRegistered

\* C12: createSession naming one of the caller's registered devices whose
\* isActive flag is false fails with "Device is inactive", adds no session and
\* emits nothing; a createSession succeeds only for a device that is
\* registered under the caller and active.
C12_InactiveDeviceCreatesNoSession ==
    [][\A o \in Owners, c \in CredentialIds :
        (IsCall(last', DM, "createSession") /\ last'.caller = o /\ last'.device = c) =>
            /\ (isDeviceRegistered(o, c) /\ ~getDevice(o, c).isActive)
                => /\ last'.err = "Device is inactive"
                   /\ last'.events = <<>>
                   /\ UNCHANGED <<userSessions, sessionIndex>>
            /\ last'.err = "ok"
                => /\ isDeviceRegistered(o, c)
                   /\ getDevice(o, c).isActive
                   /\ Len(getUserSessions(o))' = Len(getUserSessions(o)) + 1]_vars

\* C12 witness: after setDeviceStatus(device, false) a createSession naming the
\* device has failed with "Device is inactive" while another device of the
\* caller is active.
C12_Witness ==
    /\ IsCall(last, DM, "createSession")
    /\ last.err = "Device is inactive"
    /\ isDeviceRegistered(last.caller, last.device)
    /\ ~getDevice(last.caller, last.device).isActive
    /\ \E c \in CredentialIds :
        isDeviceRegistered(last.caller, c) /\ getDevice(last.caller, c).isActive

\* the view and the session check of execute agree, and both follow the stored
\* flag and now < expires
ValidityAgrees ==
    \A o \in Owners :
        /\ getSessionInfo(o).isActive <=> (sessionCheck(sessions[o]) = "pass")
        /\ getSessionInfo(o).isActive <=> (sessions[o].isActive /\ now < sessions[o].expires)
        /\ (sessions[o].isActive /\ now = sessions[o].expires)
            => /\ ~getSessionInfo(o).isActive
               /\ sessionCheck(sessions[o]) = "SessionExpired"

\* C13: a session is valid iff its active flag is set and now < expires, and
\* every reader applies this: getSessionInfo(owner).isActive is true exactly
\* when execute passes its session check, an execute call fails with
\* SessionNotFound or SessionExpired exactly when the view reports the session
\* inactive, and cleanupExpiredSession clears the flag exactly of a flagged
\* session the view reports inactive; at now = expires all three treat the
\* session as expired.
C13_ValidityAppliedIdentically ==
    /\ []ValidityAgrees
    /\ [][\A o \in Owners :
            /\ (IsCall(last', SD, "execute") /\ last'.caller = o)
                => (last'.err \in {"SessionNotFound", "SessionExpired"}
                        <=> ~getSessionInfo(o).isActive)
            /\ (IsCall(last', SD, "cleanupExpiredSession") /\ last'.args = <<o>>
                    /\ sessions[o].isActive)
                => (~sessions'[o].isActive <=> ~getSessionInfo(o).isActive)]_vars

\* C13 witness: at now = expires a cleanupExpiredSession has cleared the flag
\* of a session started one tick earlier.
C13_Witness ==
    /\ IsCall(last, SD, "cleanupExpiredSession")
    /\ last.events = <<"SessionRevoked">>
    /\ sessions[last.args[1]].owner = last.args[1]
    /\ now = sessions[last.args[1]].expires
    /\ now > 0
    /\ ~sessions[last.args[1]].isActive

\* createSession appends exactly one record with the submitted key, gas limit
\* and device, isActive = TRUE and expiresAt = now + duration; records already
\* stored keep their key, expiry, gas limit and device
SessionRecordAdded ==
    \A o \in Owners :
        /\ (IsCall(last', DM, "createSession") /\ last'.caller = o /\ last'.err = "ok")
            => getUserSessions(o)' = Append(getUserSessions(o),
                    [sessionKey |-> last'.args[1], expiresAt |-> now + last'.args[2],
                     gasLimit |-> last'.args[3], isActive |-> TRUE,
                     authorizedBy |-> last'.args[4]])
        /\ \A i \in 1..Len(getUserSessions(o)) :
            /\ i <= Len(getUserSessions(o)')
            /\ getUserSessions(o)'[i].isActive => getUserSessions(o)[i].isActive
            /\ [getUserSessions(o)'[i] EXCEPT !.isActive = TRUE]
                = [getUserSessions(o)[i] EXCEPT !.isActive = TRUE]

\* C14 as stated: every stored session that has not been revoked makes
\* isValidSession(owner, key) true while now < expiresAt and false from
\* now = expiresAt on, where expiresAt = t0 + d of its createSession, which
\* added exactly one record with the submitted key, gas limit and device.
C14_UnrevokedSessionValidUntilExpiry ==
    /\ [](\A u \in Owners :
            \A i \in 1..Len(getUserSessions(u)) :
                getUserSessions(u)[i].isActive =>
                    (isValidSession(u, getUserSessions(u)[i].sessionKey)
                        <=> now < getUserSessions(u)[i].expiresAt))
    /\ [][SessionRecordAdded]_vars

\* C14 amended: for the session most recently created for its key (the one
\* sessionIndex names) and not revoked, isValidSession(owner, key) is true
\* while now < expiresAt and false from now = expiresAt on, where
\* expiresAt = t0 + d of its createSession, which added exactly one record
\* with the submitted key, gas limit and device; a session whose key was used
\* by a later createSession is answered for by that later session.
C14_LatestSessionValidUntilExpiry ==
    /\ [](\A u \in Owners :
            \A i \in 1..Len(getUserSessions(u)) :
                LET session == getUserSessions(u)[i] IN
                /\ (session.isActive /\ sessionIndex[u][session.sessionKey] = i - 1)
                    => (isValidSession(u, session.sessionKey)
                            <=> now < session.expiresAt)
                /\ sessionIndex[u][session.sessionKey] # i - 1
                    => \E j \in (i + 1)..Len(getUserSessions(u)) :
                        /\ getUserSessions(u)[j].sessionKey = session.sessionKey
                        /\ sessionIndex[u][session.sessionKey] = j - 1)
    /\ [][SessionRecordAdded]_vars

\* C14 witness: a createSession with duration 1 has just succeeded and its key
\* is valid, while an earlier unrevoked session of another key has reached its
\* expiry and is invalid.
C14_Witness ==
    /\ IsCall(last, DM, "createSession")
    /\ last.err = "ok"
    /\ last.args[2] = 1
    /\ isValidSession(last.caller, last.args[1])
    /\ Len(getUserSessions(last.caller)) = 2
    /\ getUserSessions(last.caller)[1].sessionKey # last.args[1]
    /\ getUserSessions(last.caller)[1].isActive
    /\ getUserSessions(last.caller)[1].expiresAt = now
    /\ now > 0
    /\ ~isValidSession(last.caller, getUserSessions(last.caller)[1].sessionKey)

\* the wallet signature of owner o over the session intent with these fields
OwnerSig(o, x, y, ttl, deviceId, enc) ==
    [length |-> 65, digest |-> sessionHash(o, x, y, ttl, deviceId, enc, now),
     addr |-> o]

\* C15: a startSession with ttl = 0 whose proof verifies, whose device is
\* registered under the caller and whose intent is signed by the caller is
\* accepted; it stores an active session with expires = now, which
\* getSessionInfo reports as inactive and on which every execute at the same
\* timestamp fails with SessionExpired.
C15_ZeroTtlAcceptedAndExpired ==
    /\ Idle =>
        \A o \in Owners, p \in TouchPairs, k \in SessionKeys, enc \in EncryptedKeys :
            (/\ verify(p.proof, p.inputs) = "true"
             /\ getDeviceInfo(o, InputDeviceId(p.inputs)).isRegistered)
                => startSessionErr(o, p.proof, p.inputs,
                        OwnerSig(o, k[1], k[2], 0, InputDeviceId(p.inputs), enc),
                        k[1], k[2], 0, enc) = "ok"
    /\ (IsCall(last, SD, "startSession") /\ last.err = "ok" /\ last.args[4] = 0) =>
        /\ sessions[last.caller].isActive
        /\ sessions[last.caller].expires = now
        /\ ~getSessionInfo(last.caller).isActive
        /\ \A d \in Payloads, sig \in SessionSigs, p \in TouchPairs :
            executeErr(last.caller, d, sig, p.proof, p.inputs) = "SessionExpired"

\* C15 witness: a startSession with ttl = 0 has succeeded and an execute with
\* the session's device and key would fail with SessionExpired.
C15_Witness ==
    /\ IsCall(last, SD, "startSession")
    /\ last.err = "ok"
    /\ last.args[4] = 0
    /\ sessions[last.caller].isActive
    /\ sessions[last.caller].expires = now
    /\ \E d \in Payloads, sig \in SessionSigs, p \in TouchPairs :
        /\ InputDeviceId(p.inputs) = sessions[last.caller].deviceId
        /\ signatureCheck(sessions[last.caller], d, sig) = "pass"
        /\ executeErr(last.caller, d, sig, p.proof, p.inputs) = "SessionExpired"

\* C16: revokeSession by an owner whose slot is not active (empty, revoked or
\* cleaned up) fails with SessionNotFound, changes nothing and emits nothing;
\* otherwise it clears the active flag, changes no other field of the slot and
\* no other record, and emits SessionRevoked, after which a further
\* revokeSession by the owner fails.
C16_RevokeNeedsActiveSession ==
    [][\A o \in Owners :
        (IsCall(last', SD, "revokeSession") /\ last'.caller = o) =>
            /\ UNCHANGED <<devices, ownerDevices>>
            /\ IF sessions[o].isActive
               THEN /\ last'.err = "ok"
                    /\ last'.events = <<"SessionRevoked">>
                    /\ sessions' = [sessions EXCEPT ![o].isActive = FALSE]
                    /\ revokeSessionErr(o)' = "SessionNotFound"
               ELSE /\ last'.err = "SessionNotFound"
                    /\ last'.events = <<>>
                    /\ sessions' = sessions]_vars

\* C16 witness: a revokeSession has failed with SessionNotFound on a slot that
\* holds a session whose flag is already cleared.
C16_Witness ==
    /\ IsCall(last, SD, "revokeSession")
    /\ last.err = "SessionNotFound"
    /\ sessions[last.caller].owner = last.caller
    /\ ~sessions[last.caller].isActive
    /\ now < sessions[last.caller].expires

\* an expired session is rejected by execute, flag cleared or not
ExpiredRejected ==
    \A o \in Owners :
        now >= sessions[o].expires =>
            \A d \in Payloads, sig \in SessionSigs, p \in TouchPairs :
                executeErr(o, d, sig, p.proof, p.inputs)
                    \in {"SessionNotFound", "SessionExpired"}

\* C17: a cleanupExpiredSession call changes for no owner the value of
\* getSessionInfo(owner).isActive nor whether execute passes its session
\* check; an expired session is rejected by execute whether or not its flag
\* has been cleared.
C17_CleanupKeepsValidity ==
    /\ []ExpiredRejected
    /\ [][IsCall(last', SD, "cleanupExpiredSession") =>
            \A o \in Owners :
                /\ getSessionInfo(o).isActive' = getSessionInfo(o).isActive
                /\ (sessionCheck(sessions[o])' = "pass")
                    <=> (sessionCheck(sessions[o]) = "pass")]_vars

\* C17 witness: a cleanupExpiredSession has cleared the flag of an expired
\* session, which execute rejected before and rejects now.
C17_Witness ==
    /\ IsCall(last, SD, "cleanupExpiredSession")
    /\ last.events = <<"SessionRevoked">>
    /\ ~sessions[last.args[1]].isActive
    /\ sessionCheck([sessions[last.args[1]] EXCEPT !.isActive = TRUE]) = "SessionExpired"
    /\ sessionCheck(sessions[last.args[1]]) = "SessionNotFound"

\* C18: cleanupExpiredSession(owner) clears the flag and emits SessionRevoked
\* exactly when the slot is active and now >= expires, changing nothing else;
\* on an active unexpired, an inactive or an empty slot it changes nothing and
\* emits nothing; it never fails, and after any call a further call at the
\* same time would change nothing.
C18_CleanupGuardedIdempotent ==
    [][\A o \in Owners :
        (IsCall(last', SD, "cleanupExpiredSession") /\ last'.args = <<o>>) =>
            /\ last'.err = "ok"
            /\ UNCHANGED <<devices, ownerDevices>>
            /\ IF sessions[o].isActive /\ now >= sessions[o].expires
               THEN /\ sessions' = [sessions EXCEPT ![o].isActive = FALSE]
                    /\ last'.events = <<"SessionRevoked">>
               ELSE /\ sessions' = sessions
                    /\ last'.events = <<>>
            /\ ~(sessions'[o].isActive /\ now' >= sessions'[o].expires)]_vars

\* C18 witness: a cleanupExpiredSession on a slot whose flag an earlier
\* cleanup or revoke cleared has changed and emitted nothing.
C18_Witness ==
    /\ IsCall(last, SD, "cleanupExpiredSession")
    /\ last.events = <<>>
    /\ sessions[last.args[1]].owner = last.args[1]
    /\ ~sessions[last.args[1]].isActive
    /\ now >= sessions[last.args[1]].expires

\* C19: once an owner's session is invalid (never started, revoked, cleaned up
\* or expired), it is invalid in the next state too, whatever call is made and
\* however time advances, unless that step is a successful startSession by
\* the owner; so the slot stays invalid until such a startSession.
C19_InvalidUntilRestart ==
    [][\A o \in Owners :
        (/\ ~getSessionInfo(o).isActive
         /\ ~(IsCall(last', SD, "startSession") /\ last'.caller = o
                /\ last'.err = "ok"))
            => /\ ~getSessionInfo(o).isActive'
               /\ sessionCheck(sessions[o])' # "pass"
               /\ sessions'[o].expires = sessions[o].expires]_vars

\* C19 witness: after its expiry time an expired session that nobody revoked
\* or cleaned up is still invalid.
C19_Witness ==
    \E o \in Owners :
        /\ sessions[o].owner = o
        /\ sessions[o].isActive
        /\ now > sessions[o].expires
        /\ ~getSessionInfo(o).isActive

\* C20: while owner A holds an unexpired active session for session key S
\* bound to the registered device D1 and the verifier accepts D1's touch
\* proof, an execute by A carrying that proof and the signature made with the
\* private key of S over the action digest of the current timestamp passes
\* every check, so that the payload is dispatched.
C20_KeyHolderCanExecute ==
    \A o \in Owners, d \in Payloads, p \in TouchPairs :
        (/\ Idle
         /\ getSessionInfo(o).isActive
         /\ verify(p.proof, p.inputs) = "true"
         /\ InputDeviceId(p.inputs) = sessions[o].deviceId
         /\ getDeviceInfo(o, sessions[o].deviceId).isRegistered
         /\ <<sessions[o].sessionPubKeyX, sessions[o].sessionPubKeyY>> = <<1, 0>>)
            => executeErr(o, d,
                    [digest |-> dataHash(d, now),
                     addr |-> KeyAddress(sessions[o].sessionPubKeyX,
                                         sessions[o].sessionPubKeyY)],
                    p.proof, p.inputs) = "pass"

\* C21: right after a successful startSession with ttl > 0 at time t,
\* getSessionInfo(owner) returns isActive = TRUE, expiresAt = t + ttl > t,
\* timeRemaining = ttl and the session public key, device id and encrypted
\* session key submitted; in every state timeRemaining = max(expires - now, 0),
\* which is positive exactly when now < expires.
C21_SessionInfoAfterStart ==
    /\ \A o \in Owners :
        /\ getSessionInfo(o).timeRemaining
            = IF sessions[o].expires - now > 0 THEN sessions[o].expires - now ELSE 0
        /\ getSessionInfo(o).timeRemaining > 0 <=> now < sessions[o].expires
        /\ getSessionInfo(o).expiresAt = sessions[o].expires
    /\ (IsCall(last, SD, "startSession") /\ last.err = "ok" /\ last.args[4] > 0) =>
        /\ getDeviceInfo(last.caller, last.device).isRegistered
        /\ getSessionInfo(last.caller) =
            [isActive |-> TRUE, expiresAt |-> now + last.args[4],
             timeRemaining |-> last.args[4],
             sessionPubKeyX |-> last.args[2], sessionPubKeyY |-> last.args[3],
             deviceId |-> InputDeviceId(last.args[1]),
             encryptedSessionKey |-> last.args[5]]
        /\ getSessionInfo(last.caller).expiresAt > now

\* C21 witness: a startSession with ttl = 1 has succeeded at time 1 over an
\* earlier session and the view reports the new session active.
C21_Witness ==
    /\ IsCall(last, SD, "startSession")
    /\ last.err = "ok"
    /\ last.args[4] = 1
    /\ now = 1
    /\ last.overwritten # ZeroAddress
    /\ getSessionInfo(last.caller).isActive
    /\ getSessionInfo(last.caller).timeRemaining = 1

\* the session intents that differ from <<owner, x, y, ttl, deviceId, blob,
\* time>> in exactly one field
OneFieldOff(intent) ==
    ({[intent EXCEPT ![1] = o] : o \in Owners}
        \cup {[intent EXCEPT ![2] = k[1]] : k \in SessionKeys}
        \cup {[intent EXCEPT ![3] = y] : y \in {0, 1}}
        \cup {[intent EXCEPT ![4] = ttl] : ttl \in Ttls}
        \cup {[intent EXCEPT ![5] = d] : d \in DeviceIds}
        \cup {[intent EXCEPT ![6] = e] : e \in EncryptedKeys \cup {"blob2"}}
        \cup {[intent EXCEPT ![7] = t] : t \in 0..(MaxTime + 1)})
      \ {intent}

\* the 65-byte wallet signatures that do not authorize the intent: made by
\* the other owner over it, or by anyone over an intent one field off
ForeignSigs(o, intent) ==
    {[length |-> 65, digest |-> intent, addr |-> OtherOwner(o)]}
        \cup {[length |-> 65, digest |-> h, addr |-> a] :
                h \in OneFieldOff(intent), a \in Owners}

ProofCalls == {"registerDevice", "startSession", "execute"}

\* C23: a call of registerDevice, startSession or execute whose proof the
\* verifier rejects stores no device, writes no session, dispatches nothing
\* and emits nothing; registerDevice and startSession then fail with
\* InvalidZKProof, whatever their other arguments, and execute fails with
\* InvalidZKProof unless its session check has failed already; a call of the
\* three that succeeds was made while the verifier accepts.
C23_RejectedProofChangesNothing ==
    /\ [](Idle =>
            \A o \in Owners, p \in TouchPairs :
                verify(p.proof, p.inputs) = "false" =>
                    /\ registerDeviceErr(o, p.proof, p.inputs) = "InvalidZKProof"
                    /\ \A k \in SessionKeys, ttl \in Ttls, enc \in EncryptedKeys :
                        \A w \in WalletSigs(o, sessionHash(o, k[1], k[2], ttl,
                                        InputDeviceId(p.inputs), enc, now)) :
                            startSessionErr(o, p.proof, p.inputs, w, k[1], k[2], ttl, enc)
                                = "InvalidZKProof"
                    /\ \A d \in Payloads, sig \in SessionSigs :
                        executeErr(o, d, sig, p.proof, p.inputs)
                            = IF sessionCheck(sessions[o]) = "pass" THEN "InvalidZKProof"
                              ELSE sessionCheck(sessions[o]))
    /\ [][(last'.contract = SD /\ last'.op \in ProofCalls) =>
            /\ last'.err = "ok" => mockResult
            /\ last'.err = "InvalidZKProof" =>
                /\ ~mockResult
                /\ UNCHANGED <<sessions, devices, ownerDevices>>
                /\ last'.events = <<>>
                /\ last'.dispatched = <<>>]_vars

\* C23 witness: with the verifier rejecting, an execute on a valid session has
\* failed with InvalidZKProof.
C23_Witness ==
    /\ IsCall(last, SD, "execute")
    /\ last.err = "InvalidZKProof"
    /\ ~mockResult
    /\ getSessionInfo(last.caller).isActive

\* C24: registerDevice and startSession called with an empty proof or with
\* fewer than 3 public inputs fail with InvalidZKProof, whatever the verifier
\* is set to return.
C24_MalformedProofIsInvalidZKProof ==
    Idle =>
        \A o \in Owners, p \in TouchPairs :
            (Len(p.proof) = 0 \/ Len(p.inputs) < 3) =>
                /\ registerDeviceErr(o, p.proof, p.inputs) = "InvalidZKProof"
                /\ \A k \in SessionKeys, ttl \in Ttls, enc \in EncryptedKeys :
                    \A w \in WalletSigs(o, sessionHash(o, k[1], k[2], ttl,
                                    InputDeviceId(p.inputs), enc, now)) :
                        startSessionErr(o, p.proof, p.inputs, w, k[1], k[2], ttl, enc)
                            = "InvalidZKProof"

\* the error the fixed order of checks assigns to an execute call
FirstFailure(o, d, sig, p) ==
    IF ~sessions[o].isActive THEN "SessionNotFound"
    ELSE IF now >= sessions[o].expires THEN "SessionExpired"
    ELSE IF verify(p.proof, p.inputs) = "false" THEN "InvalidZKProof"
    ELSE IF verify(p.proof, p.inputs) # "true" THEN verify(p.proof, p.inputs)
    ELSE IF InputDeviceId(p.inputs) # sessions[o].deviceId THEN "InvalidDeviceSignature"
    ELSE IF ecrecover(dataHash(d, now), sig)
              # getSessionAddress(sessions[o].sessionPubKeyX, sessions[o].sessionPubKeyY)
         THEN "InvalidSessionSignature"
    ELSE "pass"

\* C25: execute reports the error of the first failing check in the order
\* session not active (SessionNotFound), session expired (SessionExpired),
\* proof rejected (InvalidZKProof), device mismatch (InvalidDeviceSignature),
\* bad session signature (InvalidSessionSignature), failure of the dispatched
\* call (ExecutionFailed); a call whose verifier call itself reverts fails at
\* the proof step with the verifier's message.
C25_FirstFailingCheckReported ==
    /\ [](Idle =>
            \A o \in Owners, d \in Payloads, sig \in SessionSigs, p \in TouchPairs :
                executeErr(o, d, sig, p.proof, p.inputs) = FirstFailure(o, d, sig, p))
    /\ [][\A o \in Owners :
            (IsCall(last', SD, "execute") /\ last'.caller = o) =>
                LET valid == sessions[o].isActive /\ now < sessions[o].expires
                    bound == last'.device = sessions[o].deviceId
                    signed == last'.signer =
                        getSessionAddress(sessions[o].sessionPubKeyX,
                                          sessions[o].sessionPubKeyY)
                IN /\ last'.err = "SessionNotFound" <=> ~sessions[o].isActive
                   /\ last'.err = "SessionExpired"
                        <=> (sessions[o].isActive /\ now >= sessions[o].expires)
                   /\ last'.err = "InvalidZKProof" => valid /\ ~mockResult
                   /\ last'.err = "InvalidDeviceSignature"
                        => valid /\ mockResult /\ ~bound
                   /\ last'.err = "InvalidSessionSignature"
                        => valid /\ mockResult /\ bound /\ ~signed
                   /\ last'.err \in {"ExecutionFailed", "ok"}
                        => valid /\ mockResult /\ bound /\ signed]_vars

\* C25 witness: an execute on a revoked and expired session with a device
\* other than the session's, sent while the verifier rejects, has failed with
\* SessionNotFound.
C25_Witness ==
    /\ IsCall(last, SD, "execute")
    /\ last.err = "SessionNotFound"
    /\ ~mockResult
    /\ sessions[last.caller].owner = last.caller
    /\ now >= sessions[last.caller].expires
    /\ last.device \in DeviceIds \ {sessions[last.caller].deviceId}

\* C26 as stated: registerDevice for a device id already registered to the
\* caller fails with DeviceAlreadyRegistered whatever the verifier answers,
\* also when the verifier rejects the proof.
C26_DuplicateRejectedWhateverTheVerifier ==
    Idle =>
        \A o \in Owners, k \in DeviceKeys :
            devices[o][DeviceIdOf(k[1], k[2])].isRegistered =>
                registerDeviceErr(o, <<1>>, <<0, k[1], k[2]>>)
                    = "DeviceAlreadyRegistered"

C27_AbsentWitness ==
    /\ IsCall(last, DM, "setDeviceStatus")
    /\ last.err = "Device not found"
    /\ Len(getUserDevices(last.caller)) = 1

\* the devices of an owner are listed oldest first, each once, each at the
\* position its credential id is indexed at
ListedInRegistrationOrder(o) ==
    \A i \in 1..Len(getUserDevices(o)) :
        /\ deviceIndex[o][getUserDevices(o)[i].credentialId] = i - 1
        /\ \A j \in 1..Len(getUserDevices(o)) :
            /\ i < j => getUserDevices(o)[i].registeredAt
                            <= getUserDevices(o)[j].registeredAt
            /\ i # j => getUserDevices(o)[i].credentialId
                            # getUserDevices(o)[j].credentialId

\* C28: getUserDevices(owner) lists the owner's devices in the order they
\* were registered and is as long as the number of the owner's successful
\* registerDevice calls: a successful registerDevice of the owner appends the
\* submitted device behind the devices already listed, and no other step
\* changes the length or the order of the list.
C28_DevicesInRegistrationOrder ==
    /\ [](\A o \in Owners : ListedInRegistrationOrder(o))
    /\ [][\A o \in Owners :
            IF IsCall(last', DM, "registerDevice") /\ last'.caller = o /\ last'.err = "ok"
            THEN /\ Len(getUserDevices(o)') = Len(getUserDevices(o)) + 1
                 /\ SubSeq(getUserDevices(o)', 1, Len(getUserDevices(o)))
                        = getUserDevices(o)
                 /\ LET added == getUserDevices(o)'[Len(getUserDevices(o)) + 1]
                    IN /\ added.credentialId = last'.device
                       /\ <<added.credentialId, added.publicKey, added.deviceName>>
                            = last'.args
                       /\ added.registeredAt = now
                       /\ added.isActive
            ELSE /\ Len(getUserDevices(o)') = Len(getUserDevices(o))
                 /\ \A i \in 1..Len(getUserDevices(o)) :
                        getUserDevices(o)'[i].credentialId
                            = getUserDevices(o)[i].credentialId]_vars

\* C28 witness: a second, distinct device has just been registered at a later
\* time than the first; the list has length 2 with the device registered
\* first at index 0.
C28_Witness ==
    /\ IsCall(last, DM, "registerDevice")
    /\ last.err = "ok"
    /\ Len(getUserDevices(last.caller)) = 2
    /\ getUserDevices(last.caller)[2].credentialId = last.device
    /\ getUserDevices(last.caller)[1].credentialId # last.device
    /\ getUserDevices(last.caller)[1].registeredAt
            < getUserDevices(last.caller)[2].registeredAt

\* C29 as stated: no execute completes successfully (emits SessionExecuted)
\* on a session that a revokeSession, made by the called account during the
\* dispatch, has invalidated before execute finished; after a successful
\* execute the caller's session is the active session execute read.
C29_NoExecuteOnInvalidatedSnapshot ==
    (/\ IsCall(last, SD, "execute")
     /\ last.err = "ok"
     /\ "SessionExecuted" \in {last.events[i] : i \in 1..Len(last.events)})
        => /\ sessions[last.caller].isActive
           /\ last.events = <<"SessionExecuted">>

\* C30 as stated: isValidSession(user, key) is true only if the user holds a
\* session created with that key which is active and unexpired; for a key
\* the user never passed to createSession it is false, also while the user's
\* first session is valid.
C30_AbsentKeyIsNeverValid ==
    Idle =>
        \A u \in Owners, k \in SessionKeyAddresses :
            isValidSession(u, k) =>
                \E i \in 1..Len(getUserSessions(u)) :
                    /\ getUserSessions(u)[i].sessionKey = k
                    /\ getUserSessions(u)[i].isActive
                    /\ getUserSessions(u)[i].expiresAt > now

\* C31 as stated: revokeSession(key, device) of DeviceManagerSimple leaves the
\* isActive flag of each of the caller's sessions with another key as it
\* was, and fails with SessionNotFound when the caller holds no session
\* created with that key.
C31_RevokeTouchesOnlyNamedKey ==
    [][\A o \in Owners :
        (IsCall(last', DM, "revokeSession") /\ last'.caller = o) =>
            /\ \A i \in 1..Len(getUserSessions(o)) :
                (\/ last'.err # "ok"
                 \/ getUserSessions(o)[i].sessionKey # last'.args[1])
                    => getUserSessions(o)'[i].isActive = getUserSessions(o)[i].isActive
            /\ last'.err = "ok"
                => \E i \in 1..Len(getUserSessions(o)) :
                    getUserSessions(o)[i].sessionKey = last'.args[1]]_vars

\* C32: in every reachable state of DeviceManagerSimple, for each owner u and
\* each position i below the length of userDevices[u] the index stored for
\* the credential id at position i is i; the credential ids of an owner are
\* pairwise distinct; and isDeviceRegistered(u, id) is true exactly for the ids
\* stored in u's list, which are the ids u has registered: an id becomes
\* registered only in a successful registerDevice of u naming it.
C32_IndexMatchesPosition ==
    /\ [](\A u \in Owners :
            /\ \A i \in 0..(Len(userDevices[u]) - 1) :
                deviceIndex[u][userDevices[u][i + 1].credentialId] = i
            /\ \A i, j \in 1..Len(userDevices[u]) :
                userDevices[u][i].credentialId = userDevices[u][j].credentialId
                    => i = j
            /\ \A id \in CredentialIds :
                isDeviceRegistered(u, id)
                    <=> \E i \in 1..Len(userDevices[u]) :
                            userDevices[u][i].credentialId = id)
    /\ [][\A u \in Owners, id \in CredentialIds :
            (~isDeviceRegistered(u, id) /\ isDeviceRegistered(u, id)')
                <=> (/\ IsCall(last', DM, "registerDevice")
                     /\ last'.err = "ok"
                     /\ last'.caller = u
                     /\ last'.device = id)]_vars

\* C32 witness: an owner holds one device, stored at index 0 and reported as
\* registered, while another credential id whose index is still the default
\* 0 is reported as not registered.
C32_Witness ==
    \E u \in Owners, id \in CredentialIds, other \in CredentialIds :
        /\ Idle
        /\ Len(userDevices[u]) = 1
        /\ userDevices[u][1].credentialId = id
        /\ deviceIndex[u][id] = 0
        /\ isDeviceRegistered(u, id)
        /\ other # id
        /\ deviceIndex[u][other] = 0
        /\ ~isDeviceRegistered(u, other)

\* C33 as stated: after a revokeSession(key, device) of DeviceManagerSimple
\* has succeeded, getUserSessions(owner) holds no record with sessionKey = key
\* and isActive = true, also when createSession was called more than once
\* with that key before.
C33_RevokedKeyHasNoActiveRecord ==
    (IsCall(last, DM, "revokeSession") /\ last.err = "ok") =>
        \A i \in 1..Len(getUserSessions(last.caller)) :
            getUserSessions(last.caller)[i].sessionKey = last.args[1]
                => ~getUserSessions(last.caller)[i].isActive

\* expiry times of the sessions explored
ExpiryTimes == 0..MaxTime

\* C34: while block time keeps advancing, from every state in which the owner
\* holds an active session expiring at e a state with now >= e is reached,
\* whether cleanupExpiredSession is ever called or not; in every state with
\* now >= expires every execute of the owner fails, and the slot stays expired
\* until the owner's next successful startSession.
C34_SessionsExpireWithoutCleanup ==
    /\ \A e \in ExpiryTimes :
        (sessions[DeviceOwner].isActive /\ sessions[DeviceOwner].expires = e)
            ~> (now >= e)
    /\ [](Idle /\ now >= sessions[DeviceOwner].expires =>
            \A d \in Payloads, sig \in SessionSigs, p \in TouchPairs :
                executeErr(DeviceOwner, d, sig, p.proof, p.inputs)
                    \in {"SessionNotFound", "SessionExpired"})
    /\ [][(/\ now >= sessions[DeviceOwner].expires
           /\ ~(/\ IsCall(last', SD, "startSession")
                /\ last'.caller = DeviceOwner
                /\ last'.err = "ok"))
            => /\ now' >= sessions'[DeviceOwner].expires
               /\ (IsCall(last', SD, "execute") /\ last'.caller = DeviceOwner)
                    => /\ last'.err \in {"SessionNotFound", "SessionExpired"}
                       /\ last'.dispatched = <<>>]_vars

\* C34 witness: time has passed the expiry of a session started with a
\* positive ttl; the session is still flagged active, so neither a revoke nor
\* a cleanup has touched it, and an execute has just failed with
\* SessionExpired.
C34_Witness ==
    /\ IsCall(last, SD, "execute")
    /\ last.caller = DeviceOwner
    /\ last.err = "SessionExpired"
    /\ sessions[DeviceOwner].isActive
    /\ sessions[DeviceOwner].expires > 0
    /\ now >= sessions[DeviceOwner].expires

====
